---- MODULE Spec2Model ----
(***************************************************************************)
(* Smart greenhouse controller (ESP32 firmware) and the remote store it    *)
(* reconciles with.  The device runs setup() once per boot and then loop() *)
(* for ever; every function loop() calls is one action here, so that       *)
(* writes of other clients of the store (the dashboard) interleave between *)
(* the device's handlers.                                                  *)
(*                                                                         *)
(* Numbers.  C floats (temperature, humidity, moisture_percentage and the  *)
(* store's "float" values) are fixed-point integers counting 1/4095ths, so *)
(* that 100 - raw*100.0/4095 is represented exactly.  NaN is the value     *)
(* NaN below.  Booleans in the store are 1/0 so that every stored value    *)
(* has the same shape.                                                     *)
(***************************************************************************)
EXTENDS Integers, Sequences, FiniteSets, TLC

\* ------------------------------------------------------------ constants
ADC_MAX == 4095
TEMP_THRESH_DEFAULT == 31
MOIST_THRESH_DEFAULT == 20
LUM_THRESH_DEFAULT == 20
TEMP_THRESH_MAX == 40
PERCENT_MAX == 100
DATA_PERIOD_MS == 10000
SYSINFO_PERIOD_MS == 60000
WIFI_POLL_MS == 300
WIFI_RETRY_MS == 5000
FIREBASE_WAIT_MS == 1000
SETTLE_MS == 500
FLUSH_MS == 1000
\* the dashboard resets its reboot request after this time
RESET_AFTER_MS == 5000
\* the measuring range of the DHT11 (DHT_TYPE): 0..50 degrees, 20..90 percent
DHT11_TEMP_MAX == 50
DHT11_HUM_MIN == 20
DHT11_HUM_MAX == 90

\* ------------------------------------------------------------ bounds
\* fast cycles explored per boot
MaxCycles == 1
\* fast cycles explored by the runs that follow the greenhouse
MaxCyclesLong == 3
\* restarts explored
MaxBoots == 2
\* runs of a handler that the link disturbs
MaxDisturbed == 1
\* threshold paths that other clients have written
MaxWritten == 2

NaN == -999999999

Fixed(n) == n * ADC_MAX

\* ------------------------------------------------------------ the remote store
Null == [t |-> "null", v |-> 0]
BoolVal(b) == [t |-> "boolean", v |-> IF b THEN 1 ELSE 0]
IntVal(n) == [t |-> "int", v |-> n]
FloatVal(x) == [t |-> "float", v |-> x]
StrVal(n) == [t |-> "string", v |-> n]

P_AUTOMATION == "settings/automation"
P_REBOOT == "system/reboot_request"
P_LAST_REBOOT == "system/last_reboot"
P_LAST_UPDATE == "system/last_update"

ActuatorNames == {"fan", "pump", "light"}
OverridePath(ns, a) ==
  IF ns = "actuator_status"
  THEN (CASE a = "fan" -> "actuator_status/fan" [] a = "pump" -> "actuator_status/pump"
          [] OTHER -> "actuator_status/light")
  ELSE (CASE a = "fan" -> "manual_control/fan" [] a = "pump" -> "manual_control/pump"
          [] OTHER -> "manual_control/light")

PrimaryPaths == <<"settings/temp_threshold", "settings/moisture_threshold", "settings/light_threshold">>
LegacyPaths == <<"system_thresholds/temp_thresh", "system_thresholds/moist_thresh", "system_thresholds/lum_thresh">>
\* faulty variant: the legacy namespace is polled first
ThresholdPaths_legacyFirst == LegacyPaths \o PrimaryPaths

ThresholdPaths == PrimaryPaths \o LegacyPaths

SensorDataPaths == {"sensor_data/temperature", "sensor_data/humidity", "sensor_data/soil_moisture",
                    "sensor_data/lighting", "sensor_data/fan_status", "sensor_data/pump_status",
                    "sensor_data/light_status"}
EchoPaths == {"settings/thresholds/current/temperature", "settings/thresholds/current/moisture",
              "settings/thresholds/current/light"}
SystemInfoPaths == {"system/free_heap", "system/wifi_rssi", "system/uptime", "system/status"}

Paths == {P_AUTOMATION, P_REBOOT, P_LAST_REBOOT, P_LAST_UPDATE}
           \cup {OverridePath("actuator_status", a) : a \in ActuatorNames}
           \cup {OverridePath("manual_control", a) : a \in ActuatorNames}
           \cup {ThresholdPaths[i] : i \in 1..6}
           \cup SensorDataPaths \cup EchoPaths \cup SystemInfoPaths

Pins == {"SOIL_MOISTURE_VCC", "LDR_VCC", "RELAY_PUMP", "RELAY_FAN", "RELAY_LEDS", "GREEN_LED"}

VARIABLES
  \* device globals
  lum_thresh, moist_thresh, temp_thresh,
  leds_ON, fan_status, pump_status, light_status, automation_enabled,
  temperature, humidity, light, moisture_percentage,
  start_time, dataMillis, systemInfoMillis,
  \* device hardware
  pin, millis, pc, build,
  \* the surroundings
  env, faultsLeft, db, history,
  \* observation: the calls the last handler issued, restarts and reboot requests seen
  calls, boots, observed,
  \* observation: the fast cycle in progress, as it started and the remote reads it made
  cycle

thresholds == <<lum_thresh, moist_thresh, temp_thresh>>
actuators == <<leds_ON, fan_status, pump_status, light_status>>
readings == <<temperature, humidity, light, moisture_percentage>>
timers == <<start_time, dataMillis, systemInfoMillis>>
globals == <<thresholds, actuators, readings, timers, automation_enabled>>
vars == <<globals, pin, millis, pc, build, env, faultsLeft, db, history, calls, boots, observed, cycle>>

\* ------------------------------------------------------------ calls a handler issues
Get(path, ok) ==
  [op |-> "get", tgt |-> path, ty |-> IF ok THEN db[path].t ELSE "failed",
   v |-> IF ok THEN db[path].v ELSE 0, ok |-> ok]
Put(path, val, ok) == [op |-> "set", tgt |-> path, ty |-> val.t, v |-> val.v, ok |-> ok]
DigitalWrite(p, level) == [op |-> "digitalWrite", tgt |-> p, ty |-> level, v |-> 0, ok |-> TRUE]
Delay(ms) == [op |-> "delay", tgt |-> "", ty |-> "", v |-> ms, ok |-> TRUE]
Restart == [op |-> "restart", tgt |-> "", ty |-> "", v |-> 0, ok |-> TRUE]

ApplySets(d, cs) ==
  [p \in DOMAIN d |->
     LET S == {i \in 1..Len(cs) : cs[i].op = "set" /\ cs[i].ok /\ cs[i].tgt = p}
     IN IF S = {} THEN d[p]
        ELSE LET last == CHOOSE i \in S : \A j \in S : j <= i
             IN [t |-> cs[last].ty, v |-> cs[last].v]]

RECURSIVE ApplyWrites(_, _)
ApplyWrites(p, cs) ==
  IF cs = <<>> THEN p
  ELSE LET c == Head(cs)
           p1 == IF c.op = "digitalWrite" THEN [p EXCEPT ![c.tgt] = c.ty] ELSE p
       IN ApplyWrites(p1, Tail(cs))

\* ------------------------------------------------------------ remote call outcomes
\* which of the n remote calls of a handler succeed: all of them, unless this run of the
\* handler is one the link disturbs; then one call fails, or all do (an outage)
FaultSets(n) == {{}} \cup {{i} : i \in 1..n} \cup {1..n}

Outcomes(n) ==
  IF faultsLeft = 0 THEN {[i \in 1..n |-> TRUE]}
  ELSE {[i \in 1..n |-> i \notin F] : F \in FaultSets(n)}

\* what Firebase.ready() may answer
ReadyOutcomes == IF faultsLeft = 0 THEN {TRUE} ELSE BOOLEAN

Disturbed(ready, o) == ~ready \/ \E i \in DOMAIN o : ~o[i]

Spend(ready, o) == faultsLeft' = IF Disturbed(ready, o) THEN faultsLeft - 1 ELSE faultsLeft

\* fbdo.intData(): an "int" as it is, a "float" converted to int (toward zero)
intData(r) ==
  IF r.ty = "float"
  THEN (IF r.v >= 0 THEN r.v \div ADC_MAX ELSE -((-r.v) \div ADC_MAX))
  ELSE r.v

isnan(x) == x = NaN

\* ------------------------------------------------------------ boot
PinsAtReset == [p \in Pins |-> "UNSET"]

InitGlobals ==
  /\ lum_thresh = LUM_THRESH_DEFAULT
  /\ moist_thresh = MOIST_THRESH_DEFAULT
  /\ temp_thresh = TEMP_THRESH_DEFAULT
  /\ leds_ON = FALSE
  /\ fan_status = FALSE
  /\ pump_status = FALSE
  /\ light_status = FALSE
  /\ automation_enabled = TRUE
  /\ temperature = 0
  /\ humidity = 0
  /\ light = 0
  /\ moisture_percentage = 0
  /\ start_time = 0
  /\ dataMillis = 0
  /\ systemInfoMillis = 0

\* the globals as their initialisers leave them (a restart runs them again)
ResetGlobals ==
  /\ lum_thresh' = LUM_THRESH_DEFAULT
  /\ moist_thresh' = MOIST_THRESH_DEFAULT
  /\ temp_thresh' = TEMP_THRESH_DEFAULT
  /\ leds_ON' = FALSE
  /\ fan_status' = FALSE
  /\ pump_status' = FALSE
  /\ light_status' = FALSE
  /\ automation_enabled' = TRUE
  /\ temperature' = 0
  /\ humidity' = 0
  /\ light' = 0
  /\ moisture_percentage' = 0
  /\ start_time' = 0
  /\ dataMillis' = 0
  /\ systemInfoMillis' = 0

\* no fast cycle in progress
CycleIdle ==
  [open |-> FALSE, mode |-> TRUE, fan |-> FALSE, pump |-> FALSE, light |-> FALSE, latch |-> FALSE,
   tried |-> FALSE, answered |-> FALSE]

\* a fast cycle begins: the mode and the actuator flags as they are now
CycleBegin ==
  [open |-> TRUE, mode |-> automation_enabled, fan |-> fan_status, pump |-> pump_status,
   light |-> light_status, latch |-> leds_ON, tried |-> FALSE, answered |-> FALSE]

\* the cycle after a handler issued the calls cs: was a remote read attempted, did one succeed
CycleAfter(c, cs) ==
  [c EXCEPT !.tried = @ \/ \E i \in 1..Len(cs) : cs[i].op = "get",
            !.answered = @ \/ \E i \in 1..Len(cs) : cs[i].op = "get" /\ cs[i].ok]

EnvDefault == [temp |-> Fixed(30), hum |-> Fixed(60), soil |-> 0, ldr |-> ADC_MAX]

InitDevice ==
  /\ InitGlobals
  /\ pin = PinsAtReset
  /\ millis = 0
  /\ pc = "setup"
  /\ calls = <<>>
  /\ boots = 0
  /\ observed = 0
  /\ cycle = CycleIdle

InitStore ==
  /\ db = [p \in Paths |-> Null]
  /\ history = {}

setupCalls(now, ready, ok) ==
  << DigitalWrite("RELAY_PUMP", "HIGH"), DigitalWrite("RELAY_FAN", "HIGH"),
     DigitalWrite("RELAY_LEDS", "HIGH"), DigitalWrite("GREEN_LED", "LOW") >>
  \o (IF build = "current" /\ ready THEN <<Put(P_LAST_REBOOT, IntVal(now), ok)>> ELSE <<>>)

setup ==
  /\ pc = "setup"
  /\ \E ready \in ReadyOutcomes, o \in Outcomes(1) :
       /\ millis' = millis + WIFI_POLL_MS
       /\ calls' = setupCalls(millis', ready, o[1])
       /\ Spend(ready, o)
  /\ start_time' = millis
  /\ pin' = ApplyWrites(pin, calls')
  /\ db' = ApplySets(db, calls')
  /\ pc' = "loop"
  /\ UNCHANGED <<thresholds, actuators, readings, dataMillis, systemInfoMillis,
         automation_enabled, build, env, history, boots, observed, cycle>>

\* ------------------------------------------------------------ loop(): connectivity
\* An iteration that finds the link down waits and returns.  The wait is recorded in
\* calls; the time it takes is part of the idle time that Tick lets pass.
\* faulty variant: the iteration waits for the link as setup() does, without returning
Connectivity_blocking == IF faultsLeft = 0 THEN {"ok"} ELSE {}

Connectivity == IF faultsLeft = 0 THEN {"ok"} ELSE {"ok", "wifi_lost", "not_ready"}

\* faulty variant: the reboot request is not polled
AfterConnectivity_unpolled(b) == "timers"

\* the step after the connectivity checks: checkSystemRebootRequest() where the build has it
AfterConnectivity(b) == IF b = "current" THEN "reboot" ELSE "timers"

\* faulty variant: the reboot request is polled over the link that is down
ConnectivityCalls_polls(c) == <<Get(P_REBOOT, FALSE)>>

\* what an iteration does about the outcome c of the connectivity checks
ConnectivityCalls(c) ==
  CASE c = "wifi_lost" -> <<Delay(WIFI_RETRY_MS)>>
    [] c = "not_ready" -> <<Delay(FIREBASE_WAIT_MS)>>
    [] OTHER -> <<>>

loop ==
  /\ pc = "loop"
  /\ \E c \in Connectivity :
       /\ calls' = ConnectivityCalls(c)
       /\ pc' = IF c = "ok" THEN AfterConnectivity(build) ELSE "loop"
       /\ faultsLeft' = IF c = "ok" THEN faultsLeft ELSE faultsLeft - 1
  /\ UNCHANGED <<globals, pin, millis, build, env, db, history, boots, observed, cycle>>

\* ------------------------------------------------------------ RebootCoordinator
\* faulty variant: the request's value is not looked at
RebootSeen_anyBoolean(ready, r) == ready /\ r.ok /\ r.ty = "boolean"

RebootSeen(ready, r) == ready /\ r.ok /\ r.ty = "boolean" /\ r.v = 1

\* faulty variant: no restart unless the request could be cleared
RebootCalls_onlyIfCleared(r, now, o) ==
  IF o[2]
  THEN << r, Put(P_REBOOT, BoolVal(FALSE), o[2]), Put(P_LAST_REBOOT, IntVal(now), o[3]),
          Delay(FLUSH_MS), Restart >>
  ELSE << r, Put(P_REBOOT, BoolVal(FALSE), o[2]) >>

RebootCalls(r, now, o) ==
  << r, Put(P_REBOOT, BoolVal(FALSE), o[2]), Put(P_LAST_REBOOT, IntVal(now), o[3]),
     Delay(FLUSH_MS), Restart >>

checkSystemRebootRequest ==
  /\ pc = "reboot"
  /\ \E ready \in ReadyOutcomes, o \in Outcomes(3) :
       LET r == Get(P_REBOOT, o[1])
           seen == RebootSeen(ready, r)
       IN /\ calls' = IF ~ready THEN <<>> ELSE IF seen THEN RebootCalls(r, millis, o) ELSE <<r>>
          /\ observed' = IF ready /\ r.ok /\ r.ty = "boolean" /\ r.v = 1 THEN observed + 1 ELSE observed
          /\ Spend(ready, o)
  /\ db' = ApplySets(db, calls')
  /\ IF \E i \in 1..Len(calls') : calls'[i].op = "restart"
     THEN /\ boots < MaxBoots
          /\ boots' = boots + 1
          /\ ResetGlobals
          /\ pin' = PinsAtReset
          /\ millis' = 0
          /\ pc' = "setup"
     ELSE /\ pc' = "timers"
          /\ UNCHANGED <<globals, pin, millis, boots>>
  /\ UNCHANGED <<build, env, history, cycle>>

\* ------------------------------------------------------------ loop(): the two cadence gates
Due(now, last, period) == now - last > period \/ last = 0

updateSystemInfoCalls(now, ready, o) ==
  IF ready
  THEN << Put("system/free_heap", IntVal(0), o[1]), Put("system/wifi_rssi", IntVal(0), o[2]),
          Put("system/uptime", StrVal((now - start_time) \div 1000), o[3]),
          Put("system/status", StrVal(0), o[4]) >>
  ELSE <<>>

loopTimers ==
  /\ pc = "timers"
  /\ \E ready \in ReadyOutcomes, o \in Outcomes(4) :
       IF build = "current" /\ Due(millis, systemInfoMillis, SYSINFO_PERIOD_MS)
       THEN /\ systemInfoMillis' = millis
            /\ calls' = updateSystemInfoCalls(millis, ready, o)
            /\ Spend(ready, o)
       ELSE /\ systemInfoMillis' = systemInfoMillis
            /\ calls' = <<>>
            /\ ~Disturbed(ready, o)
            /\ UNCHANGED faultsLeft
  /\ db' = ApplySets(db, calls')
  /\ IF Due(millis, dataMillis, DATA_PERIOD_MS)
     THEN dataMillis' = millis /\ pc' = "sense" /\ cycle' = CycleBegin
     ELSE dataMillis' = dataMillis /\ pc' = "loop" /\ cycle' = cycle
  /\ UNCHANGED <<thresholds, actuators, readings, start_time, automation_enabled,
         pin, millis, build, env, history, boots, observed>>

\* ------------------------------------------------------------ SensorAcquisition
\* faulty variant: the read is cached as it comes
Keep_raw(new, old) == new

Keep(new, old) == IF ~isnan(new) THEN new ELSE old

\* faulty variant: the soil value is not inverted
MoisturePercent_direct(raw) == raw * 100

MoisturePercent(raw) == Fixed(100) - raw * 100

LightPercent(raw) == (raw * 100) \div ADC_MAX

readSensorsCalls ==
  << DigitalWrite("SOIL_MOISTURE_VCC", "HIGH"), Delay(SETTLE_MS), DigitalWrite("SOIL_MOISTURE_VCC", "LOW"),
     DigitalWrite("LDR_VCC", "HIGH"), Delay(SETTLE_MS), DigitalWrite("LDR_VCC", "LOW") >>

readSensors ==
  /\ pc = "sense"
  /\ temperature' = Keep(env.temp, temperature)
  /\ humidity' = Keep(env.hum, humidity)
  /\ moisture_percentage' = MoisturePercent(env.soil)
  /\ light' = LightPercent(env.ldr)
  /\ calls' = readSensorsCalls
  /\ pin' = ApplyWrites(pin, calls')
  /\ millis' = millis + 2 * SETTLE_MS
  /\ pc' = IF build = "current" THEN "thresh" ELSE "cmd"
  /\ UNCHANGED <<thresholds, actuators, timers, automation_enabled, build, env, faultsLeft, db,
                 history, boots, observed, cycle>>

\* ------------------------------------------------------------ ThresholdStore
IsNumber(r) == r.ty = "int" \/ r.ty = "float"

\* faulty variant: no upper bound
Valid_unbounded(n, max, cur) == n > 0 /\ n # cur

\* faulty variant: zero is accepted
Valid_zero(n, max, cur) == n >= 0 /\ n <= max /\ n # cur

Valid(n, max, cur) == n > 0 /\ n <= max /\ n # cur

\* faulty variant: the type of the value read is not checked
Refresh_untyped(r, cur, max) ==
  IF r.ok /\ Valid(r.v, max, cur) THEN r.v ELSE cur

\* the threshold after one read r of one of its paths
Refresh(r, cur, max) ==
  IF r.ok /\ IsNumber(r) /\ Valid(intData(r), max, cur) THEN intData(r) ELSE cur

checkThresholdUpdatesCalls(ready, o) ==
  IF ready THEN [i \in 1..6 |-> Get(ThresholdPaths[i], o[i])] ELSE <<>>

checkThresholdUpdates ==
  /\ pc = "thresh"
  /\ \E ready \in ReadyOutcomes, o \in Outcomes(6) :
       /\ calls' = checkThresholdUpdatesCalls(ready, o)
       /\ Spend(ready, o)
       /\ IF ready
          THEN /\ temp_thresh' = Refresh(calls'[4], Refresh(calls'[1], temp_thresh, TEMP_THRESH_MAX), TEMP_THRESH_MAX)
               /\ moist_thresh' = Refresh(calls'[5], Refresh(calls'[2], moist_thresh, PERCENT_MAX), PERCENT_MAX)
               /\ lum_thresh' = Refresh(calls'[6], Refresh(calls'[3], lum_thresh, PERCENT_MAX), PERCENT_MAX)
          ELSE UNCHANGED thresholds
  /\ pc' = "cmd"
  /\ cycle' = CycleAfter(cycle, calls')
  /\ UNCHANGED <<actuators, readings, timers, automation_enabled, pin, millis, build, env,
         db, history, boots, observed>>

\* ------------------------------------------------------------ ModeReconciler
IsBool(r) == r.ok /\ r.ty = "boolean"

OverrideNamespace == IF build = "current" THEN "actuator_status" ELSE "manual_control"

\* faulty variant: the type of the value read is not checked
Mode_untyped(ready, r) == IF ready /\ r.ok THEN r.v = 1 ELSE automation_enabled

\* the mode after the read r of settings/automation
Mode(ready, r) == IF ready /\ IsBool(r) THEN r.v = 1 ELSE automation_enabled

\* faulty variant: in MANUAL an actuator whose override could not be read is switched off
Override_failOff(manual, r, cur) == IF manual THEN IsBool(r) /\ r.v = 1 ELSE cur

\* faulty variant: the type of the override is not checked
Override_untyped(manual, r, cur) == IF manual /\ r.ok THEN r.v = 1 ELSE cur

\* faulty variant: the override is read and not applied
Override_ignored(manual, r, cur) == cur

\* an actuator flag after the read r of its override path
Override(manual, r, cur) == IF manual /\ IsBool(r) THEN r.v = 1 ELSE cur

\* faulty variant: the light override sets the status and leaves the latch
LatchAfterOverride_kept(manual, r, cur) == cur

\* leds_ON after the read r of the light override: assigned together with light_status
LatchAfterOverride(manual, r, cur) == Override(manual, r, cur)

\* faulty variant: relays wired active-high
Level_activeHigh(on) == IF on THEN "HIGH" ELSE "LOW"

Level(on) == IF on THEN "LOW" ELSE "HIGH"

OverrideWrites(manual, r, relay) ==
  IF manual /\ IsBool(r) THEN <<DigitalWrite(relay, Level(r.v = 1))>> ELSE <<>>

LedWrites(manual, r) ==
  IF manual /\ IsBool(r) THEN <<DigitalWrite("GREEN_LED", IF r.v = 1 THEN "HIGH" ELSE "LOW")>> ELSE <<>>

\* faulty variant: the thresholds are evaluated in both modes
AfterReconcile_always(auto) == "control"

\* faulty variant: the rules are never evaluated
AfterReconcile_never(auto) == "send"

\* loop(): controlDevices() is called only if automation_enabled
AfterReconcile(auto) == IF auto THEN "control" ELSE "send"

checkFirebaseCommands ==
  /\ pc = "cmd"
  /\ \E ready \in ReadyOutcomes, o \in Outcomes(4) :
       LET ra == Get(P_AUTOMATION, o[1])
           manual == ready /\ ~Mode(ready, ra)
           rf == Get(OverridePath(OverrideNamespace, "fan"), o[2])
           rp == Get(OverridePath(OverrideNamespace, "pump"), o[3])
           rl == Get(OverridePath(OverrideNamespace, "light"), o[4])
       IN /\ automation_enabled' = Mode(ready, ra)
          /\ fan_status' = Override(manual, rf, fan_status)
          /\ pump_status' = Override(manual, rp, pump_status)
          /\ light_status' = Override(manual, rl, light_status)
          /\ leds_ON' = LatchAfterOverride(manual, rl, leds_ON)
          /\ Spend(ready, o)
          /\ calls' = IF ~ready THEN <<>>
                      ELSE <<ra>> \o (IF manual
                                      THEN <<rf>> \o OverrideWrites(manual, rf, "RELAY_FAN")
                                           \o <<rp>> \o OverrideWrites(manual, rp, "RELAY_PUMP")
                                           \o <<rl>> \o OverrideWrites(manual, rl, "RELAY_LEDS")
                                           \o LedWrites(manual, rl)
                                      ELSE <<>>)
  /\ pin' = ApplyWrites(pin, calls')
  /\ pc' = AfterReconcile(automation_enabled')
  /\ cycle' = CycleAfter(cycle, calls')
  /\ UNCHANGED <<thresholds, readings, timers, millis, build, env, db, history, boots, observed>>

\* ------------------------------------------------------------ ActuatorController
\* faulty variant: the light rule without its latch
LightOn_level(l, th, latch) == l < th

LightOn(l, th, latch) == l < th /\ ~latch

\* faulty variant: the light goes off only above the threshold
LightOff_strict(l, th, latch) == l > th /\ latch

LightOff(l, th, latch) == l >= th /\ latch

\* faulty variant: strictly above
FanRule_strict(t, th) == t > Fixed(th)

FanRule(t, th) == t >= Fixed(th)

\* faulty variant: at or below
PumpRule_inclusive(m, th) == m <= Fixed(th)

PumpRule(m, th) == m < Fixed(th)

controlDevicesCalls ==
  (IF LightOn(light, lum_thresh, leds_ON)
   THEN <<DigitalWrite("RELAY_LEDS", "LOW"), DigitalWrite("GREEN_LED", "HIGH")>>
   ELSE IF LightOff(light, lum_thresh, leds_ON)
   THEN <<DigitalWrite("RELAY_LEDS", "HIGH"), DigitalWrite("GREEN_LED", "LOW")>>
   ELSE <<>>)
  \o <<DigitalWrite("RELAY_PUMP", Level(PumpRule(moisture_percentage, moist_thresh)))>>
  \o <<DigitalWrite("RELAY_FAN", Level(FanRule(temperature, temp_thresh)))>>

controlDevices ==
  /\ pc = "control"
  /\ IF LightOn(light, lum_thresh, leds_ON)
     THEN leds_ON' = TRUE /\ light_status' = TRUE
     ELSE IF LightOff(light, lum_thresh, leds_ON)
     THEN leds_ON' = FALSE /\ light_status' = FALSE
     ELSE UNCHANGED <<leds_ON, light_status>>
  /\ pump_status' = PumpRule(moisture_percentage, moist_thresh)
  /\ fan_status' = FanRule(temperature, temp_thresh)
  /\ calls' = controlDevicesCalls
  /\ pin' = ApplyWrites(pin, calls')
  /\ pc' = "send"
  /\ UNCHANGED <<thresholds, readings, timers, automation_enabled, millis, build, env, faultsLeft, db,
                 history, boots, observed, cycle>>

\* ------------------------------------------------------------ TelemetryPublisher
StatusPath(a) ==
  IF build = "current"
  THEN (CASE a = "fan" -> "sensor_data/fan_status" [] a = "pump" -> "sensor_data/pump_status"
          [] OTHER -> "sensor_data/light_status")
  ELSE OverridePath("actuator_status", a)

HistoryPath(key, field) == "history/" \o ToString(key) \o "/" \o field

sendToFirebaseCalls(now, o) ==
  << Put("sensor_data/temperature", FloatVal(temperature), o[1]),
     Put("sensor_data/humidity", FloatVal(humidity), o[2]),
     Put("sensor_data/soil_moisture", FloatVal(moisture_percentage), o[3]),
     Put("sensor_data/lighting", IntVal(light), o[4]),
     Put(StatusPath("fan"), BoolVal(fan_status), o[5]),
     Put(StatusPath("pump"), BoolVal(pump_status), o[6]),
     Put(StatusPath("light"), BoolVal(light_status), o[7]),
     Put(P_AUTOMATION, BoolVal(automation_enabled), o[8]) >>
  \o (IF build = "current"
      THEN << Put("settings/thresholds/current/temperature", IntVal(temp_thresh), o[9]),
              Put("settings/thresholds/current/moisture", IntVal(moist_thresh), o[10]),
              Put("settings/thresholds/current/light", IntVal(lum_thresh), o[11]) >>
      ELSE <<>>)
  \o << Put(P_LAST_UPDATE, StrVal(now), o[12]),
        Put(HistoryPath(now, "temperature"), FloatVal(temperature), o[13]),
        Put(HistoryPath(now, "humidity"), FloatVal(humidity), o[14]),
        Put(HistoryPath(now, "soil_moisture"), FloatVal(moisture_percentage), o[15]),
        Put(HistoryPath(now, "lighting"), IntVal(light), o[16]),
        Put(HistoryPath(now, "timestamp"), IntVal(now), o[17]) >>

HistoryWritten(cs, key) ==
  \E i \in 1..Len(cs) :
     /\ cs[i].op = "set" /\ cs[i].ok
     /\ cs[i].tgt \in {HistoryPath(key, f) : f \in {"temperature", "humidity", "soil_moisture", "lighting", "timestamp"}}

sendToFirebase ==
  /\ pc = "send"
  /\ \E ready \in ReadyOutcomes, o \in Outcomes(17) :
       /\ calls' = IF ready THEN sendToFirebaseCalls(millis, o) ELSE <<>>
       /\ Spend(ready, o)
  /\ db' = ApplySets(db, calls')
  /\ history' = IF HistoryWritten(calls', millis) THEN history \cup {millis} ELSE history
  /\ pc' = "loop"
  /\ cycle' = CycleIdle
  /\ UNCHANGED <<globals, pin, millis, build, env, boots, observed>>

\* ------------------------------------------------------------ the surroundings
\* time passes between two iterations until the fast gate opens, up to a horizon
TickWithin(horizon) ==
  /\ pc = "loop"
  /\ ~Due(millis, dataMillis, DATA_PERIOD_MS)
  /\ millis' = millis + DATA_PERIOD_MS + 1
  /\ millis' <= horizon
  /\ UNCHANGED <<globals, pin, pc, build, env, faultsLeft, db, history, calls, boots, observed, cycle>>

\* the clock at the end of the c-th fast cycle after a boot
Horizon(c) == WIFI_POLL_MS + c * (DATA_PERIOD_MS + 1 + 2 * SETTLE_MS)

Tick == TickWithin(Horizon(MaxCycles))

TickLong == TickWithin(Horizon(MaxCyclesLong))

TempReads == {NaN, Fixed(30), Fixed(31), Fixed(33)}
HumReads == {NaN, Fixed(60), Fixed(70)}
SoilReads == {0, 3276, 3481}
LdrReads == {410, 819, ADC_MAX}

\* the greenhouse changes; the device sees it at its next readSensors
AirChanges ==
  /\ pc = "loop"
  /\ \E t \in TempReads, h \in HumReads : env' = [env EXCEPT !.temp = t, !.hum = h]
  /\ env' # env
  /\ UNCHANGED <<globals, pin, millis, pc, build, faultsLeft, db, history, calls, boots, observed, cycle>>

SoilChanges ==
  /\ pc = "loop"
  /\ \E m \in SoilReads : env' = [env EXCEPT !.soil = m]
  /\ env' # env
  /\ UNCHANGED <<globals, pin, millis, pc, build, faultsLeft, db, history, calls, boots, observed, cycle>>

LightChanges ==
  /\ pc = "loop"
  /\ \E l \in LdrReads : env' = [env EXCEPT !.ldr = l]
  /\ env' # env
  /\ UNCHANGED <<globals, pin, millis, pc, build, faultsLeft, db, history, calls, boots, observed, cycle>>

\* another client of the store writes one path
RemoteWrite(path, val) ==
  /\ db' = [db EXCEPT ![path] = val]
  /\ db' # db
  /\ UNCHANGED <<globals, pin, millis, pc, build, env, faultsLeft, history, calls, boots, observed, cycle>>

WriteAutomation ==
  /\ pc = "loop"
  /\ \E v \in {BoolVal(TRUE), BoolVal(FALSE), StrVal(0)} : RemoteWrite(P_AUTOMATION, v)

WriteOverride ==
  /\ pc = "loop"
  /\ \E a \in ActuatorNames, v \in {BoolVal(TRUE), BoolVal(FALSE), IntVal(1)} :
       RemoteWrite(OverridePath(OverrideNamespace, a), v)

\* the same, between two iterations of the device
WriteRebootIdle ==
  /\ pc = "loop"
  /\ \E v \in {BoolVal(TRUE), BoolVal(FALSE)} : RemoteWrite(P_REBOOT, v)

WriteReboot == \E v \in {BoolVal(TRUE), BoolVal(FALSE), IntVal(1)} : RemoteWrite(P_REBOOT, v)

TempCandidates == {IntVal(0), IntVal(25), IntVal(40), IntVal(41), FloatVal(Fixed(40) + 2457), StrVal(25)}
PercentCandidates == {IntVal(0), IntVal(100), IntVal(101), FloatVal(Fixed(50) + 819), BoolVal(TRUE)}

Candidates(i) == IF i \in {1, 4} THEN TempCandidates ELSE PercentCandidates

WriteThreshold ==
  \E i \in 1..6 :
     \E v \in Candidates(i) :
        RemoteWrite(ThresholdPaths[i], v)

\* the same between two iterations, with at most MaxWritten threshold paths present
WriteThresholdIdle ==
  /\ pc = "loop"
  /\ WriteThreshold
  /\ Cardinality({i \in 1..6 : db'[ThresholdPaths[i]] # Null}) <= MaxWritten

Device ==
  \/ setup
  \/ loop
  \/ checkSystemRebootRequest
  \/ loopTimers
  \/ readSensors
  \/ checkThresholdUpdates
  \/ checkFirebaseCommands
  \/ controlDevices
  \/ sendToFirebase

Init ==
  /\ InitDevice
  /\ InitStore
  /\ build = "current"
  /\ env = EnvDefault
  /\ faultsLeft = 0

Next == Device \/ Tick \/ AirChanges \/ SoilChanges \/ LightChanges
          \/ WriteAutomation \/ WriteOverride \/ WriteReboot \/ WriteThreshold

Spec == Init /\ [][Next]_vars

\* ------------------------------------------------------------ the device alone
NextAlone == Device \/ Tick

SpecAlone == Init /\ [][NextAlone]_vars

\* ------------------------------------------------------------ reboot requests over an unreliable link
InitReboot ==
  /\ InitDevice
  /\ InitStore
  /\ build = "current"
  /\ env = EnvDefault
  /\ faultsLeft = MaxDisturbed

NextReboot == Device \/ Tick \/ WriteReboot

SpecReboot == InitReboot /\ [][NextReboot]_vars

CallsWhere(op, tgt) == {i \in 1..Len(calls) : calls[i].op = op /\ calls[i].tgt = tgt}

ObservedTrue ==
  \E i \in CallsWhere("get", P_REBOOT) : calls[i].ok /\ calls[i].ty = "boolean" /\ calls[i].v = 1

\* C1: every observed reboot_request = true (boolean) is followed, in this order, by
\* exactly one write of false to system/reboot_request, exactly one write of
\* system/last_reboot and exactly one restart; no restart happens without an observed
\* true and there is one restart per observed true.
C1_RebootOncePerRequest ==
  /\ boots = observed
  /\ CallsWhere("restart", "") # {} => ObservedTrue
  /\ ObservedTrue =>
       \E g \in CallsWhere("get", P_REBOOT), c \in CallsWhere("set", P_REBOOT),
          s \in CallsWhere("set", P_LAST_REBOOT), r \in CallsWhere("restart", "") :
            /\ g < c /\ c < s /\ s < r
            /\ calls[c].ty = "boolean" /\ calls[c].v = 0
            /\ CallsWhere("get", P_REBOOT) = {g}
            /\ CallsWhere("set", P_REBOOT) = {c}
            /\ CallsWhere("set", P_LAST_REBOOT) = {s}
            /\ CallsWhere("restart", "") = {r}
            /\ pc = "setup"

\* a restart that followed an observed true, the request cleared
C1_Witness ==
  /\ ObservedTrue
  /\ boots = 1
  /\ pc = "setup"
  /\ db[P_REBOOT] = BoolVal(FALSE)

\* ------------------------------------------------------------ mode and overrides
InitMode ==
  /\ InitDevice
  /\ InitStore
  /\ build \in {"current", "legacy"}
  /\ \E m \in SoilReads : env = [EnvDefault EXCEPT !.soil = m]
  /\ faultsLeft = 0

NextMode == Device \/ Tick \/ WriteAutomation \/ WriteOverride

SpecMode == InitMode /\ [][NextMode]_vars

Flag(a) == CASE a = "fan" -> fan_status [] a = "pump" -> pump_status [] OTHER -> light_status

Relay(a) == CASE a = "fan" -> "RELAY_FAN" [] a = "pump" -> "RELAY_PUMP" [] OTHER -> "RELAY_LEDS"

\* the boolean overrides of actuator a that the last handler read successfully
OverridesRead(cs, a) ==
  {i \in 1..Len(cs) : /\ cs[i].op = "get" /\ cs[i].tgt = OverridePath(OverrideNamespace, a)
                      /\ cs[i].ok /\ cs[i].ty = "boolean"}

\* C2: in MANUAL mode, an actuator whose boolean override was read successfully has its
\* flag and its relay equal to the override after the reconciliation, whatever the readings.
C2_OverrideApplied ==
  (pc = "send" /\ ~automation_enabled) =>
     \A a \in ActuatorNames : \A i \in OverridesRead(calls, a) :
        /\ Flag(a) = (calls[i].v = 1)
        /\ pin[Relay(a)] = Level(calls[i].v = 1)

\* MANUAL, the pump override true was read: the pump is ON although the soil is not dry
C2_Witness ==
  /\ pc = "send" /\ ~automation_enabled
  /\ \E i \in OverridesRead(calls, "pump") : calls[i].v = 1
  /\ pump_status
  /\ pin["RELAY_PUMP"] = "LOW"
  /\ ~PumpRule(moisture_percentage, moist_thresh)

RelayPins == <<pin["RELAY_FAN"], pin["RELAY_PUMP"], pin["RELAY_LEDS"], pin["GREEN_LED"]>>

\* actuator a's flag changes in this step only to the value of a boolean override read in it
ChangedByOverride(a) ==
  Flag(a)' # Flag(a) => \E i \in OverridesRead(calls', a) : Flag(a)' = (calls'[i].v = 1)

\* C3: a fast cycle whose mode after the reconciliation is MANUAL does not evaluate the
\* thresholds: the reconciliation is followed by the telemetry push, the flags and the
\* latch change in it only through a boolean override read successfully, and no other
\* step of the cycle changes them or the relays.
C3_NoThresholdsInManual ==
  [][ /\ (pc = "cmd" /\ ~automation_enabled') =>
           /\ pc' = "send"
           /\ \A a \in ActuatorNames : ChangedByOverride(a)
           /\ leds_ON' # leds_ON => \E i \in OverridesRead(calls', "light") : leds_ON' = (calls'[i].v = 1)
      /\ (pc \in {"sense", "thresh"} \/ (pc = "send" /\ ~automation_enabled)) =>
           UNCHANGED <<actuators, RelayPins>>
      /\ pc' = "control" => automation_enabled'
    ]_vars

\* the end of a MANUAL cycle in which the pump rule would have decided otherwise
C3_Witness ==
  /\ pc = "loop" /\ ~automation_enabled
  /\ Len(calls) > 0 /\ calls[1].op = "set"
  /\ pump_status # PumpRule(moisture_percentage, moist_thresh)
  /\ fan_status /\ ~FanRule(temperature, temp_thresh)

\* ------------------------------------------------------------ the mode over an unreliable link
InitModeLink ==
  /\ InitDevice
  /\ InitStore
  /\ build = "current"
  /\ env = EnvDefault
  /\ faultsLeft = MaxDisturbed

NextModeLink == Device \/ Tick \/ WriteAutomation \/ WriteRebootIdle

SpecModeLink == InitModeLink /\ [][NextModeLink]_vars

ModeReads(cs) ==
  {i \in 1..Len(cs) : cs[i].op = "get" /\ cs[i].tgt = P_AUTOMATION /\ cs[i].ok /\ cs[i].ty = "boolean"}

\* C10: the mode is AUTOMATIC at every boot; the reconciliation sets it to the boolean it
\* read from settings/automation and leaves it alone when the read failed or returned
\* another type; no other handler changes it.
C10_ModeFollowsRemoteBoolean ==
  [][ /\ pc' = "setup" => automation_enabled'
      /\ pc = "cmd" =>
           IF ModeReads(calls') # {}
           THEN \A i \in ModeReads(calls') : automation_enabled' = (calls'[i].v = 1)
           ELSE automation_enabled' = automation_enabled
      /\ (pc # "cmd" /\ pc' # "setup") => automation_enabled' = automation_enabled
    ]_vars

\* MANUAL after a boolean false was read, the read before it having failed
C10_Witness ==
  /\ pc = "send" /\ ~automation_enabled
  /\ ModeReads(calls) # {}
  /\ faultsLeft < MaxDisturbed
  /\ boots > 0

\* ------------------------------------------------------------ the air of the greenhouse
NextAir == Device \/ TickLong \/ AirChanges

SpecAir == Init /\ [][NextAir]_vars

Written(cs, p) == {i \in 1..Len(cs) : cs[i].op = "digitalWrite" /\ cs[i].tgt = p}

C7_NaNNeverCached ==
  [][ /\ ~isnan(temperature) /\ ~isnan(humidity)
      /\ ~isnan(temperature') /\ ~isnan(humidity')
      /\ pc = "sense" =>
           /\ temperature' = (IF env.temp = NaN THEN temperature ELSE env.temp)
           /\ humidity' = (IF env.hum = NaN THEN humidity ELSE env.hum)
      /\ (pc # "sense" /\ pc' # "setup") => UNCHANGED <<temperature, humidity>>
    ]_vars

\* a NaN temperature was read: the cache keeps 33 while the humidity follows its valid read
C7_Witness ==
  /\ pc = "thresh"
  /\ env.temp = NaN /\ temperature = Fixed(33)
  /\ env.hum = Fixed(70) /\ humidity = Fixed(70)

\* ------------------------------------------------------------ the soil and the daylight
NextGround == Device \/ TickLong \/ SoilChanges \/ LightChanges

SpecGround == Init /\ [][NextGround]_vars

\* C4: in AUTOMATIC mode with a fixed threshold an evaluation writes the light relay exactly
\* when it changes the light state; while the light stays on the same side of the threshold
\* an evaluation neither writes nor toggles.
C4_LightEdgeTriggered ==
  [][ pc = "control" =>
        /\ (Written(calls', "RELAY_LEDS") # {}) = (light_status' # light_status)
        /\ (leds_ON' # leds_ON) = (light_status' # light_status)
        /\ light_status' # light_status => light_status' = (light < lum_thresh)
        /\ (light < lum_thresh) = leds_ON =>
             /\ Written(calls', "RELAY_LEDS") = {}
             /\ UNCHANGED <<light_status, leds_ON, pin["RELAY_LEDS"]>>
    ]_vars

\* a second evaluation at light 10 under threshold 20 with the latch set: no write
C4_Witness ==
  /\ pc = "send" /\ automation_enabled
  /\ light = 10 /\ lum_thresh = LUM_THRESH_DEFAULT
  /\ leds_ON /\ light_status /\ pin["RELAY_LEDS"] = "LOW"
  /\ Written(calls, "RELAY_LEDS") = {}
  /\ Cardinality(history) > 0

\* C6: every evaluation in AUTOMATIC mode leaves the pump ON exactly when the soil moisture
\* is below the moisture threshold, whatever the pump was before, and drives the relay
\* accordingly.
C6_PumpLevelTriggered ==
  [][ pc = "control" =>
        /\ pump_status' = (moisture_percentage < moist_thresh * ADC_MAX)
        /\ pin'["RELAY_PUMP"] = (IF pump_status' THEN "LOW" ELSE "HIGH")
        /\ Written(calls', "RELAY_PUMP") # {}
    ]_vars

\* the pump is OFF after an evaluation at a moisture equal to the threshold
C6_Witness ==
  /\ pc = "send" /\ automation_enabled
  /\ moisture_percentage = Fixed(moist_thresh)
  /\ ~pump_status /\ pin["RELAY_PUMP"] = "HIGH"

\* ------------------------------------------------------------ thresholds written by other clients
NextRefresh == Device \/ Tick \/ WriteThresholdIdle

SpecRefresh == Init /\ [][NextRefresh]_vars

ThresholdReads(cs, k) ==
  {i \in 1..Len(cs) : cs[i].op = "get" /\ cs[i].ok /\ cs[i].tgt \in {ThresholdPaths[k], ThresholdPaths[k + 3]}}

\* the number the store holds at a read lies in the permitted bound 0 < x <= max
InBound(r, max) ==
  \/ r.ty = "int" /\ r.v > 0 /\ r.v <= max
  \/ r.ty = "float" /\ r.v > 0 /\ r.v <= max * ADC_MAX

\* C8: a refresh changes a threshold only if it read, from one of the threshold's two paths,
\* a number inside the permitted bound; candidates outside the bound leave it unchanged.
C8_OutOfBoundIgnored ==
  [][ pc = "thresh" =>
        /\ temp_thresh' # temp_thresh =>
             \E i \in ThresholdReads(calls', 1) : InBound(calls'[i], 40)
        /\ moist_thresh' # moist_thresh =>
             \E i \in ThresholdReads(calls', 2) : InBound(calls'[i], 100)
        /\ lum_thresh' # lum_thresh =>
             \E i \in ThresholdReads(calls', 3) : InBound(calls'[i], 100)
    ]_vars

\* ------------------------------------------------------------ thresholds found at every boot
\* a store in which the threshold paths of S hold the values f
StoreWith(S, f) ==
  [p \in Paths |-> IF \E i \in S : ThresholdPaths[i] = p
                   THEN f[CHOOSE i \in S : ThresholdPaths[i] = p]
                   ELSE Null]

\* other clients have left values at up to MaxWritten threshold paths before the boot
InitThresholds ==
  /\ InitDevice
  /\ build = "current"
  /\ env = EnvDefault
  /\ faultsLeft = 0
  /\ history = {}
  /\ \E S \in {T \in SUBSET (1..6) : Cardinality(T) <= MaxWritten} :
        \E f \in [S -> TempCandidates \cup PercentCandidates] :
           /\ \A i \in S : f[i] \in Candidates(i)
           /\ db = StoreWith(S, f)

\* every boot runs its first fast cycle, and with it one refresh
NextThresholds == Device \/ WriteRebootIdle

SpecThresholds == InitThresholds /\ [][NextThresholds]_vars

\* C9: the temperature threshold is an integer in 1..40 and the moisture and light
\* thresholds are integers in 1..100, in every state.
C9_ThresholdsInBounds ==
  /\ temp_thresh \in 1..40
  /\ moist_thresh \in 1..100
  /\ lum_thresh \in 1..100

\* after a restart the refresh raised two thresholds to their upper bounds again
C9_Witness ==
  /\ boots > 0 /\ pc = "cmd"
  /\ temp_thresh = 40 /\ moist_thresh = 100

\* ------------------------------------------------------------ cycles in which the store does not answer
\* the operator may have left the fan override on
InitOutage ==
  /\ InitDevice
  /\ history = {}
  /\ \E v \in {Null, BoolVal(TRUE)} :
        db = [p \in Paths |-> IF p = OverridePath("actuator_status", "fan") THEN v ELSE Null]
  /\ build = "current"
  /\ \E t \in {Fixed(30), Fixed(33)} : env = [EnvDefault EXCEPT !.temp = t]
  /\ faultsLeft = MaxDisturbed + 1

NextOutage == Device \/ Tick \/ WriteAutomation

SpecOutage == InitOutage /\ [][NextOutage]_vars

\* the fast cycle in progress has had no answer to a remote read
Unanswered == cycle.open /\ ~cycle.answered

FlagsAsAtCycleStart ==
  /\ fan_status = cycle.fan /\ pump_status = cycle.pump
  /\ light_status = cycle.light /\ leds_ON = cycle.latch

\* C11 as stated: a fast cycle in which no remote read succeeded ends with the mode and the
\* fan, pump and light flags it started with, in either mode.
C11_FailOpenEitherMode ==
  (pc = "send" /\ Unanswered /\ cycle.tried) =>
     (automation_enabled = cycle.mode /\ FlagsAsAtCycleStart)

\* C11: a fast cycle in which no remote read succeeded ends in the mode it started in; in
\* MANUAL the fan, pump and light flags and the latch are those of its start; in AUTOMATIC
\* the fan and the pump are what the threshold rules give for the local readings.
C11_FailOpen ==
  (pc = "send" /\ Unanswered) =>
     /\ automation_enabled = cycle.mode
     /\ ~automation_enabled => FlagsAsAtCycleStart
     /\ automation_enabled =>
          /\ fan_status = (temperature >= temp_thresh * ADC_MAX)
          /\ pump_status = (moisture_percentage < moist_thresh * ADC_MAX)

\* a MANUAL cycle with the fan ON whose remote reads were attempted and all failed
C11_Witness ==
  /\ pc = "send" /\ Unanswered /\ cycle.tried
  /\ ~automation_enabled /\ fan_status /\ pin["RELAY_FAN"] = "LOW"

\* ------------------------------------------------------------ the two namespaces of a threshold
\* other clients have left values in the primary and the legacy namespace of one threshold
InitNamespaces ==
  /\ InitDevice
  /\ build = "current"
  /\ env = EnvDefault
  /\ faultsLeft = 0
  /\ history = {}
  /\ \E k \in 1..3 : \E f \in [{k, k + 3} -> Candidates(k) \cup {Null}] : db = StoreWith({k, k + 3}, f)

NextNamespaces == Device \/ Tick

SpecNamespaces == InitNamespaces /\ [][NextNamespaces]_vars

ThresholdOf(k) == CASE k = 1 -> temp_thresh [] k = 2 -> moist_thresh [] OTHER -> lum_thresh

BoundOf(k) == IF k = 1 THEN 40 ELSE 100

\* the read of path p among the calls cs (one read per path and refresh)
ReadOf(cs, p) == cs[CHOOSE i \in 1..Len(cs) : cs[i].tgt = p]

\* the read r supplies a number inside the bound of threshold k
Supplies(r, k) == r.ok /\ (r.ty = "int" \/ r.ty = "float") /\ intData(r) > 0 /\ intData(r) <= BoundOf(k)

PrimaryBeforeLegacy(cs) ==
  \A k \in 1..3 : \E i, j \in 1..Len(cs) : i < j /\ cs[i].tgt = PrimaryPaths[k] /\ cs[j].tgt = LegacyPaths[k]

Publishes == pc = "send" /\ HistoryWritten(calls', millis)

\* C13: no telemetry push writes a history record under a key that an earlier push used.
C13_DistinctHistoryKeys ==
  [][ Publishes => millis \notin history ]_vars

\* C14: every history key written is strictly greater than all keys written before it,
\* restarts included, so no push writes over an existing record.
C14_MonotonicHistoryKeys ==
  [][ Publishes => \A k \in history : millis > k ]_vars

\* ------------------------------------------------------------ a reboot request that cannot be cleared
\* the request is there when the device boots and no other client touches it afterwards
InitStaleRequest ==
  /\ InitDevice
  /\ history = {}
  /\ db = [p \in Paths |-> IF p = P_REBOOT THEN BoolVal(TRUE) ELSE Null]
  /\ build = "current"
  /\ env = EnvDefault
  /\ faultsLeft = MaxDisturbed

NextStaleRequest == Device \/ Tick

SpecStaleRequest == InitStaleRequest /\ [][NextStaleRequest]_vars

SeenTrue(cs) ==
  \E i \in 1..Len(cs) : cs[i].op = "get" /\ cs[i].tgt = P_REBOOT /\ cs[i].ok
                          /\ cs[i].ty = "boolean" /\ cs[i].v = 1

ClearFailed(cs) == \E i \in 1..Len(cs) : cs[i].op = "set" /\ cs[i].tgt = P_REBOOT /\ ~cs[i].ok

\* C15: every successful read of a true reboot request is followed by the restart, whether
\* the clear-write succeeds or fails; after a failed clear-write the remote flag is still
\* true, so the next successful read of it restarts the device again.
C15_RestartDespiteFailedClear ==
  [][ (pc = "reboot" /\ SeenTrue(calls')) =>
        /\ \E i \in 1..Len(calls') : calls'[i].op = "restart"
        /\ pc' = "setup" /\ boots' = boots + 1
        /\ ClearFailed(calls') => db'[P_REBOOT] = BoolVal(TRUE)
        /\ ~ClearFailed(calls') => db'[P_REBOOT] = BoolVal(FALSE)
    ]_vars

\* the second restart: the first could not clear the request, this one did
C15_Witness ==
  /\ boots = 2 /\ pc = "setup"
  /\ SeenTrue(calls) /\ ~ClearFailed(calls)
  /\ db[P_REBOOT] = BoolVal(FALSE)
  /\ faultsLeft = 0

\* ------------------------------------------------------------ MANUAL mode over an unreliable link
OverrideValues == {BoolVal(TRUE), BoolVal(FALSE), IntVal(1)}

\* the operator has switched to MANUAL and left a value at each override path
InitManual ==
  /\ InitDevice
  /\ history = {}
  /\ build = "current"
  /\ env = EnvDefault
  /\ faultsLeft = MaxDisturbed
  /\ \E f \in [ActuatorNames -> OverrideValues] :
        db = [p \in Paths |->
                IF p = P_AUTOMATION THEN BoolVal(FALSE)
                ELSE IF \E a \in ActuatorNames : p = OverridePath("actuator_status", a)
                THEN f[CHOOSE a \in ActuatorNames : p = OverridePath("actuator_status", a)]
                ELSE Null]

NextManual == Device \/ Tick

SpecManual == InitManual /\ [][NextManual]_vars

OverrideReads(cs, a) ==
  {i \in 1..Len(cs) : cs[i].op = "get" /\ cs[i].tgt = OverridePath(OverrideNamespace, a)}

\* C16: a reconciliation that ends in MANUAL reads each of the three override paths once,
\* whatever became of the other reads; an actuator whose read succeeded with a boolean takes
\* that value in its flag and relay, and an actuator whose read failed or returned another
\* type keeps its flag and relay.
C16_OverridesIndependent ==
  [][ (pc = "cmd" /\ ~automation_enabled' /\ calls' # <<>>) =>
        \A a \in ActuatorNames :
           /\ Cardinality(OverrideReads(calls', a)) = 1
           /\ \A i \in OverrideReads(calls', a) :
                IF calls'[i].ok /\ calls'[i].ty = "boolean"
                THEN /\ Flag(a)' = (calls'[i].v = 1)
                     /\ pin'[Relay(a)] = (IF calls'[i].v = 1 THEN "LOW" ELSE "HIGH")
                ELSE /\ Flag(a)' = Flag(a)
                     /\ pin'[Relay(a)] = pin[Relay(a)]
    ]_vars

\* the read of the fan override failed and the fan stays ON, the pump override was applied,
\* the light override is not a boolean and the light stays OFF
C16_Witness ==
  /\ pc = "send" /\ ~automation_enabled
  /\ \E i \in OverrideReads(calls, "fan") : ~calls[i].ok
  /\ fan_status /\ pin["RELAY_FAN"] = "LOW"
  /\ \E i \in OverrideReads(calls, "pump") : calls[i].ok /\ calls[i].ty = "boolean" /\ calls[i].v = 1
  /\ pump_status /\ pin["RELAY_PUMP"] = "LOW"
  /\ \E i \in OverrideReads(calls, "light") : calls[i].ok /\ calls[i].ty = "int"
  /\ ~light_status /\ pin["RELAY_LEDS"] = "HIGH"

\* ------------------------------------------------------------ the refresh over an unreliable link
\* every threshold path holds a valid value of its own, except at most one that holds a string
FullStore == <<IntVal(25), IntVal(50), IntVal(60), IntVal(26), IntVal(51), IntVal(61)>>

InitRefreshLink ==
  /\ InitDevice
  /\ history = {}
  /\ build = "current"
  /\ env = EnvDefault
  /\ faultsLeft = MaxDisturbed
  /\ \E j \in 0..6 :
        db = StoreWith(1..6, [i \in 1..6 |-> IF i = j THEN StrVal(25) ELSE FullStore[i]])

NextRefreshLink == Device \/ Tick

SpecRefreshLink == InitRefreshLink /\ [][NextRefreshLink]_vars

\* the read r did not deliver a number
Ignored(r) == ~r.ok \/ ~(r.ty = "int" \/ r.ty = "float")

\* C17: a refresh that starts polling attempts all six reads in their order and completes,
\* whatever the outcome of each; a read that failed or returned a non-numeric type has no
\* effect on its threshold, which is then decided by the other read of that threshold alone.
C17_FailedReadIgnored ==
  [][ (pc = "thresh" /\ calls' # <<>>) =>
        /\ pc' = "cmd"
        /\ Len(calls') = 6
        /\ \A i \in 1..6 : calls'[i].op = "get" /\ calls'[i].tgt = (PrimaryPaths \o LegacyPaths)[i]
        /\ \A k \in 1..3 :
             LET p == calls'[k]
                 l == calls'[k + 3]
             IN /\ (Ignored(p) /\ Ignored(l)) => ThresholdOf(k)' = ThresholdOf(k)
                /\ (Ignored(p) /\ ~Ignored(l)) => ThresholdOf(k)' = l.v
                /\ (~Ignored(p) /\ Ignored(l)) => ThresholdOf(k)' = p.v
    ]_vars

\* the primary temperature read failed: the legacy value 26 was applied, and so were the
\* values of the other two thresholds
C17_Witness ==
  /\ pc = "cmd" /\ Len(calls) = 6
  /\ ~calls[1].ok
  /\ temp_thresh = 26 /\ moist_thresh = 51 /\ lum_thresh = 61

\* ------------------------------------------------------------ the order of one iteration
InitCycle ==
  /\ InitDevice
  /\ history = {}
  /\ build = "current"
  /\ env = EnvDefault
  /\ faultsLeft = MaxDisturbed
  /\ \E a \in {Null, BoolVal(FALSE)}, t \in {Null, IntVal(50)} :
        db = [p \in Paths |-> IF p = P_AUTOMATION THEN a
                              ELSE IF p = ThresholdPaths[2] THEN t ELSE Null]

NextCycle == Device \/ Tick \/ SoilChanges

SpecCycle == InitCycle /\ [][NextCycle]_vars

\* the step that may follow each step of loop()
StepOrder ==
  /\ pc = "loop" => pc' \in {"loop", "reboot"}
  /\ pc = "reboot" => pc' \in {"timers", "setup"}
  /\ pc = "timers" => pc' \in {"sense", "loop"}
  /\ pc = "sense" => pc' = "thresh"
  /\ pc = "thresh" => pc' = "cmd"
  /\ pc = "cmd" => pc' = IF automation_enabled' THEN "control" ELSE "send"
  /\ pc = "control" => pc' = "send"
  /\ pc = "send" => pc' = "loop"

\* what each step of a running iteration may change
StepFrame ==
  /\ pc \in {"loop", "timers", "thresh", "cmd", "control", "send"} => readings' = readings
  /\ pc \in {"loop", "timers", "sense", "cmd", "control", "send"} => thresholds' = thresholds
  /\ pc \in {"loop", "timers", "sense", "thresh", "control", "send"} =>
        automation_enabled' = automation_enabled
  /\ pc \in {"loop", "timers", "sense", "thresh", "send"} => actuators' = actuators

\* C18: the steps of an iteration follow one another in the order of loop(); readings change
\* only in sensing, thresholds only in the refresh, the mode only in the reconciliation and the
\* actuator flags only in reconciliation and actuation; the actuation runs in AUTOMATIC mode on
\* the reading sensed in this iteration, and the push writes the flags as the actuation left them.
C18_FixedOrder ==
  [][ /\ StepOrder
      /\ StepFrame
      /\ pc = "control" =>
           /\ automation_enabled
           /\ moisture_percentage = MoisturePercent(env.soil)
           /\ pump_status' = (moisture_percentage < Fixed(moist_thresh))
      /\ (pc = "send" /\ calls' # <<>>) =>
           /\ calls'[5].v = BoolVal(fan_status').v
           /\ calls'[6].v = BoolVal(pump_status').v
           /\ calls'[7].v = BoolVal(light_status').v
           /\ calls'[8].v = BoolVal(automation_enabled').v
           /\ calls'[10].v = moist_thresh
    ]_vars

\* a push that follows an actuation which switched the pump ON for soil sensed at 20 percent
\* against the threshold 50 read in the same iteration
C18_Witness ==
  /\ pc = "loop" /\ Len(calls) = 17
  /\ env.soil = 3276 /\ moisture_percentage = MoisturePercent(3276)
  /\ moist_thresh = 50 /\ automation_enabled
  /\ calls[6].v = BoolVal(TRUE).v /\ pump_status

\* ------------------------------------------------------------ the loop keeps running
\* The store holds a pending or a wrong-typed reboot request and a mode of the wrong type,
\* the air sensor works or fails, and the link fails calls or whole handler runs.
InitLive ==
  /\ InitDevice
  /\ history = {}
  /\ build \in {"current", "legacy"}
  /\ \E t \in {Fixed(33), NaN} : env = [EnvDefault EXCEPT !.temp = t]
  /\ faultsLeft = MaxDisturbed
  /\ \E r \in {Null, BoolVal(TRUE), StrVal(1)}, a \in {Null, IntVal(0)} :
        db = [p \in Paths |-> IF p = P_REBOOT THEN r ELSE IF p = P_AUTOMATION THEN a ELSE Null]

NextLive == Device \/ Tick

\* loop() is called again as soon as it returns: the device takes its next step
SpecLive == InitLive /\ [][NextLive]_vars /\ WF_vars(Device)

InIteration == pc \in {"reboot", "timers", "sense", "thresh", "cmd", "control", "send"}

CompletePush == pc = "send" /\ Len(calls') = 17 /\ \A i \in 1..17 : calls'[i].ok

\* the store mirrors the readings, the flags and the thresholds in memory
Mirrored ==
  /\ db'["sensor_data/temperature"] = FloatVal(temperature')
  /\ db'["sensor_data/humidity"] = FloatVal(humidity')
  /\ db'["sensor_data/soil_moisture"] = FloatVal(moisture_percentage')
  /\ db'["sensor_data/lighting"] = IntVal(light')
  /\ db'[StatusPath("fan")] = BoolVal(fan_status')
  /\ db'[StatusPath("pump")] = BoolVal(pump_status')
  /\ db'[StatusPath("light")] = BoolVal(light_status')
  /\ db'["settings/thresholds/current/temperature"] = IntVal(temp_thresh')
  /\ db'["settings/thresholds/current/moisture"] = IntVal(moist_thresh')
  /\ db'["settings/thresholds/current/light"] = IntVal(lum_thresh')

\* C20: a push whose writes all succeed leaves the store's sensor values, actuator status
\* and echoed thresholds equal to the values in memory, and adds exactly one history record.
C20_PushMirrorsAndAppendsOne ==
  [][ CompletePush =>
        /\ Mirrored
        /\ millis \notin history
        /\ history' = history \cup {millis}
    ]_vars

\* ------------------------------------------------------------ reads outside the sensor's range
TempInRange(x) == ~isnan(x) /\ x >= 0 /\ x <= Fixed(DHT11_TEMP_MAX)

HumInRange(x) == ~isnan(x) /\ x >= Fixed(DHT11_HUM_MIN) /\ x <= Fixed(DHT11_HUM_MAX)

\* the sensor delivers a frame whose value lies outside its range, or fails, or recovers
AirGlitches ==
  /\ pc = "loop"
  /\ \E t \in {NaN, Fixed(33), Fixed(80)}, h \in {Fixed(60), Fixed(95)} :
        env' = [env EXCEPT !.temp = t, !.hum = h]
  /\ env' # env
  /\ UNCHANGED <<globals, pin, millis, pc, build, faultsLeft, db, history, calls, boots, observed, cycle>>

NextGlitch == Device \/ TickLong \/ AirGlitches

SpecGlitch == Init /\ [][NextGlitch]_vars

\* C21: a temperature or humidity read outside the sensor's range leaves the cached value
\* as it was, and the actuation never evaluates a temperature outside the range.
C21_OutOfRangeNotCached ==
  [][ /\ (pc = "sense" /\ ~TempInRange(env.temp)) => temperature' = temperature
      /\ (pc = "sense" /\ ~HumInRange(env.hum)) => humidity' = humidity
      /\ pc = "control" => TempInRange(temperature)
    ]_vars

\* ------------------------------------------------------------ the dashboard's reboot action
\* the last iteration of the device spent at least the dashboard's reset time waiting
Waited == \E i \in 1..Len(calls) : calls[i].op = "delay" /\ calls[i].v >= RESET_AFTER_MS

\* handleReboot: set(system/reboot_request, true)
handleReboot ==
  /\ pc = "loop" /\ ~Waited
  /\ db[P_REBOOT] = Null
  /\ RemoteWrite(P_REBOOT, BoolVal(TRUE))

\* handleReboot's timer: set(system/reboot_request, false), once the reset time has passed
handleRebootReset ==
  /\ pc = "loop" /\ Waited
  /\ db[P_REBOOT] = BoolVal(TRUE)
  /\ RemoteWrite(P_REBOOT, BoolVal(FALSE))

NextDashboardReboot == Device \/ Tick \/ handleReboot \/ handleRebootReset

\* the device runs its loop without pause; the dashboard's timer fires when its time has come
SpecDashboardReboot ==
  InitReboot /\ [][NextDashboardReboot]_vars /\ WF_vars(Device) /\ WF_vars(handleRebootReset)

\* C22: every reboot request of the dashboard is followed by a restart of the device.
C22_RequestLeadsToRestart ==
  [](db[P_REBOOT] = BoolVal(TRUE) /\ boots = 0 => <>(boots > 0))

\* ------------------------------------------------------------ the mode path and the push
\* C23: the telemetry push leaves a boolean stored at settings/automation as it is.
C23_PushKeepsStoredMode ==
  [][ (pc = "send" /\ db[P_AUTOMATION].t = "boolean") => db'[P_AUTOMATION] = db[P_AUTOMATION] ]_vars

\* ------------------------------------------------------------ the place of the reboot check
RestartIssued(cs) == \E i \in 1..Len(cs) : cs[i].op = "restart"

\* C24: an iteration that passes the connectivity checks goes to the reboot check next,
\* whatever the two cadence gates say, and nothing of an iteration runs before it; a restart
\* is the last call of its iteration and the device continues in setup().
C24_RebootCheckFirst ==
  [][ /\ (pc = "loop" /\ pc' # "loop") => pc' = "reboot"
      /\ (pc # "reboot" /\ pc' # pc /\ pc' \in {"timers", "sense", "thresh", "cmd", "control", "send"}) =>
            pc \in {"timers", "sense", "thresh", "cmd", "control"}
      /\ (pc = "reboot" /\ calls' # <<>>) => calls'[1].op = "get" /\ calls'[1].tgt = P_REBOOT
      /\ (pc = "reboot" /\ RestartIssued(calls')) =>
            /\ calls'[Len(calls')].op = "restart"
            /\ pc' = "setup"
            /\ dataMillis' = 0 /\ systemInfoMillis' = 0
            /\ history' = history
            /\ \A p \in SensorDataPaths \cup SystemInfoPaths : db'[p] = db[p]
    ]_vars

\* a restart issued in an iteration in which neither cadence gate was open: the store holds
\* the push of the first cycle and nothing newer
C24_Witness ==
  /\ pc = "setup" /\ boots = 1
  /\ RestartIssued(calls)
  /\ history # {}
  /\ db[P_LAST_UPDATE] = StrVal(WIFI_POLL_MS + 2 * SETTLE_MS)
  /\ db[P_LAST_REBOOT].v <= WIFI_POLL_MS + 2 * SETTLE_MS + DATA_PERIOD_MS

\* ------------------------------------------------------------ the two conversions, all raw values
InitRaw ==
  /\ InitDevice
  /\ InitStore
  /\ build = "current"
  /\ faultsLeft = 0
  /\ \E r \in 0..ADC_MAX : env = [EnvDefault EXCEPT !.soil = r, !.ldr = r]

SpecRaw == InitRaw /\ [][NextAlone]_vars

\* C25: after sensing the raw value r, light is the integer floor(r * 100 / 4095), within
\* 0..100 and 100 only for r = 4095; the soil moisture is 100 - r * 100 / 4095, within 0..100,
\* 100 for r = 0 and 0 for r = 4095, and lower than the moisture of the raw value below r.
C25_PercentRanges ==
  pc = "thresh" =>
    /\ light \in 0..PERCENT_MAX
    /\ light * ADC_MAX <= env.ldr * 100 /\ env.ldr * 100 < (light + 1) * ADC_MAX
    /\ light = PERCENT_MAX <=> env.ldr = ADC_MAX
    /\ moisture_percentage + env.soil * 100 = PERCENT_MAX * ADC_MAX
    /\ moisture_percentage >= 0 /\ moisture_percentage <= PERCENT_MAX * ADC_MAX
    /\ env.soil = 0 <=> moisture_percentage = PERCENT_MAX * ADC_MAX
    /\ env.soil = ADC_MAX <=> moisture_percentage = 0
    /\ env.soil > 0 => MoisturePercent(env.soil - 1) > moisture_percentage

\* the driest and brightest raw value has been sensed
C25_Witness ==
  /\ pc = "thresh" /\ env.soil = ADC_MAX /\ env.ldr = ADC_MAX
  /\ moisture_percentage = 0 /\ light = PERCENT_MAX

\* ------------------------------------------------------------ the light and its latch
\* The store holds a mode, a light override and a light threshold or none of them; the
\* daylight is 10 or 100 percent; the mode is switched by the dashboard while the device runs.
InitLatch ==
  /\ InitDevice
  /\ history = {}
  /\ build = "current"
  /\ faultsLeft = 0
  /\ \E l \in {410, ADC_MAX} : env = [EnvDefault EXCEPT !.ldr = l]
  /\ \E a \in {Null, BoolVal(FALSE)}, o \in {Null, BoolVal(TRUE), BoolVal(FALSE)},
        t \in {Null, IntVal(10)} :
        db = [p \in Paths |-> IF p = P_AUTOMATION THEN a
                              ELSE IF p = OverridePath("actuator_status", "light") THEN o
                              ELSE IF p = ThresholdPaths[3] THEN t ELSE Null]

NextLatch == Device \/ Tick \/ WriteAutomation \/ LightChanges

SpecLatch == InitLatch /\ [][NextLatch]_vars

\* C26: the light latch and the light status are equal in every state.
C26_LatchEqualsStatus == leds_ON = light_status

\* the light was switched ON by an override in MANUAL and OFF again by the evaluation in
\* AUTOMATIC at 100 percent daylight
C26_Witness ==
  /\ pc = "send" /\ automation_enabled
  /\ cycle.light /\ cycle.latch
  /\ ~leds_ON /\ ~light_status
  /\ light = PERCENT_MAX

\* C27: every evaluation of the rules leaves the light ON exactly if the light level is
\* below the light threshold, as a rule without latch would.
C27_LatchedEqualsLevel ==
  [][ pc = "control" => (light_status' <=> light < lum_thresh) ]_vars

\* the first evaluation after the light was ON by an override, with the threshold changed to
\* the light level itself: the light is OFF
C27_Witness ==
  /\ pc = "send" /\ automation_enabled
  /\ cycle.light
  /\ lum_thresh = 10 /\ light = 10
  /\ ~light_status

\* ------------------------------------------------------------ relay outputs and flags
\* C28: once setup() has run, each relay pin is LOW exactly if its flag is true, and the
\* status LED is HIGH exactly if the light flag is true.
C28_PinsMirrorFlags ==
  pc # "setup" =>
    /\ \A a \in ActuatorNames : pin[Relay(a)] \in {"LOW", "HIGH"} /\ (pin[Relay(a)] = "LOW" <=> Flag(a))
    /\ pin["GREEN_LED"] \in {"LOW", "HIGH"} /\ (pin["GREEN_LED"] = "HIGH" <=> light_status)

\* MANUAL mode with the light and the fan ON by their overrides and the pump OFF
C28_Witness ==
  /\ pc = "send" /\ ~automation_enabled
  /\ light_status /\ fan_status /\ ~pump_status
  /\ pin["RELAY_LEDS"] = "LOW" /\ pin["GREEN_LED"] = "HIGH"
  /\ pin["RELAY_FAN"] = "LOW" /\ pin["RELAY_PUMP"] = "HIGH"

\* ------------------------------------------------------------ an iteration without connectivity
\* this step is an iteration that ended at a failed connectivity check
LinkDownIteration == pc = "loop" /\ pc' = "loop" /\ faultsLeft' < faultsLeft

\* C29: an iteration that ends at a failed connectivity check only waits: readings,
\* thresholds, mode, flags, pins, both cadence timers and the store stay as they are.
C29_LinkDownChangesNothing ==
  [][ LinkDownIteration =>
        /\ UNCHANGED <<readings, thresholds, automation_enabled, actuators, pin>>
        /\ UNCHANGED <<dataMillis, systemInfoMillis>>
        /\ UNCHANGED <<db, history>>
        /\ calls' # <<>>
        /\ \A i \in 1..Len(calls') : calls'[i].op = "delay"
    ]_vars

\* WiFi is down with the fast gate open and the soil dry at 15 percent in AUTOMATIC mode:
\* the soil has not been sensed and the pump is OFF
C29_Witness ==
  /\ pc = "loop" /\ calls = <<Delay(WIFI_RETRY_MS)>>
  /\ Due(millis, dataMillis, DATA_PERIOD_MS)
  /\ automation_enabled
  /\ env.soil = 3481 /\ moisture_percentage # MoisturePercent(3481)
  /\ ~pump_status

\* ------------------------------------------------------------ a refresh repeated on the same store
\* the primary read of threshold k assigns: valid and different from the threshold
AssignsPrimary(cs, k) ==
  LET p == ReadOf(cs, PrimaryPaths[k])
  IN Supplies(p, k) /\ intData(p) # ThresholdOf(k)

\* threshold k when its legacy path is read
AtLegacyRead(cs, k) ==
  IF AssignsPrimary(cs, k) THEN intData(ReadOf(cs, PrimaryPaths[k])) ELSE ThresholdOf(k)

\* the legacy read of threshold k assigns: valid and different from the threshold by then
AssignsLegacy(cs, k) ==
  LET l == ReadOf(cs, LegacyPaths[k])
  IN Supplies(l, k) /\ intData(l) # AtLegacyRead(cs, k)

\* a refresh after the first push of this boot; no one writes the threshold paths meanwhile
LaterRefresh == pc = "thresh" /\ history # {} /\ calls' # <<>>

====
